---- MODULE Spec2Model ----
(***************************************************************************)
(* A model of the SalesConnection js-sdk (src/src/index.ts):               *)
(*   - FieldHelper / DataHelper: lookup and in-place mutation of the       *)
(*     fields of a record, over a heap of Field objects and array          *)
(*     instances (JavaScript reference semantics);                         *)
(*   - SDK.url: URL resolution;                                            *)
(*   - the SDK operations, SDK.call / SDK._call and the transport.         *)
(*   - tasks that interleave setValue calls on a shared helper;            *)
(*   - toTemplateType.                                                     *)
(***************************************************************************)
EXTENDS Integers, Sequences, FiniteSets, TLC

VARIABLES
    heap,       \* Field objects: object id -> [lbl_id, label, type, value]
    arrays,     \* array instances: array id -> sequence of object ids
    ref,        \* DataHelper.ref, the record: field group -> array id
    helper,     \* DataHelper.default / .dynamic: view -> [fields |-> array id]
    last,       \* the last synchronous call (or caller step) and what it returned
    tasks,      \* the tasks that share a helper: [pending, done, before]
    events,     \* the webhook type names a handler has still to convert
    sdk,        \* the SDK instance: [baseUrl, apiKey, apiSecret]
    resolved,   \* the last SDK.url call: [path, version, url]
    opts,       \* the options object the caller keeps and passes to getAssets / getProducts
    pc,         \* "idle", "awaiting" (transport call in flight) or "settled"
    op,         \* the operation in progress: [name, args, record], the record
                \* being the caller's field collections as they were at the call
    sent,       \* the transport invocations of the operation in progress
    reply,      \* what the transport answered: a response, an error, or nothing yet
    outcome     \* how the operation's promise settled: [state, value]

fieldVars == <<heap, arrays, ref, helper, last, tasks, events>>

sdkVars == <<sdk, resolved, opts, pc, op, sent, reply, outcome>>

vars == <<fieldVars, sdkVars>>

(***************************************************************************)
(* Bounds and input sets of the field model.                               *)
(***************************************************************************)
\* Longest default_fields collection a record is built with.
MaxFields == 2

\* Values a Field carries or a caller writes (Field.value).
Values == {"A", "B"}

\* The (lbl_id, label) pairs of the schema the records are built from: f2
\* occurs under two labels and "Name" labels two ids, so collections with
\* duplicate ids and with duplicate labels are among the inputs.
FieldKinds ==
    { [lbl_id |-> "f1", label |-> "Name"],
      [lbl_id |-> "f2", label |-> "Name"],
      [lbl_id |-> "f2", label |-> "Phone"] }

\* Keys the callers look up: the ids / labels of the schema and one that no
\* default_fields collection holds.
LookupIds == {"f1", "f2", "f9"}

LookupLabels == {"Name", "Phone", "Fax"}

\* The two field groups of a record and the two views of a DataHelper.
Views == {"default", "dynamic"}

\* Field, src/unnamed/part_001:100-105.
Field(kind, value) ==
    [lbl_id |-> kind.lbl_id, label |-> kind.label, type |-> "text", value |-> value]

\* What a lookup that finds no field returns (JavaScript undefined).
NoField == <<>>

\* What getValue returns for an absent field (JavaScript undefined).
undefined == "undefined"

\* All sequences over S of length at most n.
SeqsUpTo(S, n) == UNION { [1..k -> S] : k \in 0..n }

\* The default_fields collections records are built with: up to MaxFields
\* fields, no (lbl_id, label) pair twice, any values.
DefaultInputs ==
    { s \in SeqsUpTo({ Field(k, v) : k \in FieldKinds, v \in Values }, MaxFields) :
        \A i, j \in DOMAIN s :
            (s[i].lbl_id = s[j].lbl_id /\ s[i].label = s[j].label) => i = j }

\* The dynamic_fields collections records are built with: empty, an id that
\* default_fields may hold too, an id and label only the dynamic group holds.
DynamicInputs ==
    {<<>>}
    \cup { <<Field([lbl_id |-> "f1", label |-> "Name"], v)>> : v \in Values }
    \cup { <<Field([lbl_id |-> "f9", label |-> "Fax"], v)>> : v \in Values }

\* The collection a caller replaces a group's array with when it re-populates
\* the record: one new Field.
FreshInput == << Field([lbl_id |-> "f1", label |-> "Name"], "A") >>

\* The object ids of the Field objects an array instance of n elements was
\* created with.
ObjIds(array, n) == { <<array, i>> : i \in 1..n }

Min(S) == CHOOSE x \in S : \A y \in S : x <= y

(***************************************************************************)
(* SDK: construction and URL resolution.                                   *)
(* A string that takes part in URL resolution is a sequence of pieces: the *)
(* piece "/" is the slash character, every other piece is a run of         *)
(* characters without a slash.                                             *)
(***************************************************************************)
\* Longest base URL and longest path of the URL resolution inputs, in pieces.
MaxBase == 3

MaxPath == 3

\* The pieces base URLs and paths are made of.
Pieces == {"/", "a"}

\* API versions (the version parameter of call / _call / url).
Versions == {"v1", "v2"}

\* String.prototype.endsWith('/') and startsWith('/').
endsWith(str, piece) == Len(str) > 0 /\ str[Len(str)] = piece

startsWith(str, piece) == Len(str) > 0 /\ str[1] = piece

\* String.prototype.substring(1).
substring1(str) == SubSeq(str, 2, Len(str))

\* SDK.constructor.
SDK(baseUrl, apiKey, apiSecret) ==
    [baseUrl |-> baseUrl, apiKey |-> apiKey, apiSecret |-> apiSecret]

\* url with a fault: the path is used as given.
urlKeepSlash(this, path, version) ==
    LET base == IF ~endsWith(this.baseUrl, "/") THEN this.baseUrl \o <<"/">>
                ELSE this.baseUrl
    IN  base \o <<version, "/">> \o path

\* url with a fault: the slash after the base is always appended.
urlAddSlash(this, path, version) ==
    LET p == IF startsWith(path, "/") THEN substring1(path) ELSE path
    IN  this.baseUrl \o <<"/">> \o <<version, "/">> \o p

\* SDK.url.
url(this, path, version) ==
    LET base == IF ~endsWith(this.baseUrl, "/") THEN this.baseUrl \o <<"/">>
                ELSE this.baseUrl
        withVersion == base \o <<version, "/">>
        p == IF startsWith(path, "/") THEN substring1(path) ELSE path
    IN  withVersion \o p

\* What `resolved` holds before the first url call.
NoUrl == [path |-> <<>>, version |-> "", url |-> <<>>]

\* A call of SDK.url.
Url(path, version) ==
    /\ resolved' = [path |-> path, version |-> version, url |-> url(sdk, path, version)]
    /\ UNCHANGED <<sdk, opts, pc, op, sent, reply, outcome, fieldVars>>

(***************************************************************************)
(* FieldHelper                                                             *)
(***************************************************************************)
\* Array.prototype.find over the helper's array with the predicate
\* f => f[property] == key: the first element it accepts, or undefined.
find(fields, property, key) ==
    LET hits == { i \in 1..Len(arrays[fields]) : heap[arrays[fields][i]][property] = key }
    IN  IF hits = {} THEN NoField ELSE arrays[fields][Min(hits)]

\* getField with a fault: the last match instead of the first.
getFieldLast(this, lbl_id) ==
    LET hits == { i \in 1..Len(arrays[this.fields]) :
                    heap[arrays[this.fields][i]].lbl_id = lbl_id }
    IN  IF hits = {} THEN NoField
        ELSE arrays[this.fields][CHOOSE i \in hits : \A j \in hits : j <= i]

getField(this, lbl_id) == find(this.fields, "lbl_id", lbl_id)

\* getFieldByLabel with a fault: the label is compared with the fields' ids.
getFieldByLabelAsId(this, label) == find(this.fields, "lbl_id", label)

getFieldByLabel(this, label) == find(this.fields, "label", label)

\* How a call that threw completes.
TypeError == "TypeError"

\* getValue with a fault: field.value without the optional chaining, which
\* throws when no field was found.
getValueStrict(this, lbl_id) ==
    LET field == getField(this, lbl_id)
    IN  IF field = NoField THEN TypeError ELSE heap[field].value

\* field?.value of the field found.
getValue(this, lbl_id) ==
    LET field == getField(this, lbl_id)
    IN  IF field = NoField THEN undefined ELSE heap[field].value

getValueByLabel(this, label) ==
    LET field == getFieldByLabel(this, label)
    IN  IF field = NoField THEN undefined ELSE heap[field].value

\* assignValue with a fault: the write is lost.
assignNothing(field, value) == heap

\* assignValue with a fault: the value is written to every Field object.
assignValueAll(field, value) ==
    IF field # NoField THEN [o \in DOMAIN heap |-> [heap[o] EXCEPT !.value = value]]
    ELSE heap

\* field.value = value, when a field was found.
assignValue(field, value) ==
    IF field # NoField THEN [heap EXCEPT ![field].value = value] ELSE heap

\* FieldHelper.constructor: the helper keeps the array instance it is given.
FieldHelper(fields) == [fields |-> fields]

\* DataHelper with a fault: both helpers are built on default_fields.
DataHelperOneGroup(r) ==
    [default |-> FieldHelper(r.default_fields),
     dynamic |-> FieldHelper(r.default_fields)]

\* DataHelper.constructor.
DataHelper(r) ==
    [default |-> FieldHelper(r.default_fields),
     dynamic |-> FieldHelper(r.dynamic_fields)]

\* The record property a view is built from.
GroupOf(view) == IF view = "default" THEN "default_fields" ELSE "dynamic_fields"

\* View with a fault: the accessor builds a helper on the record's current array
\* at every call.
ViewLive(v) == FieldHelper(ref[GroupOf(v)])

\* defaultFields() / dynamicFields().
View(v) == IF v = "default" THEN helper.default ELSE helper.dynamic

\* No tasks share the helper.
NoTasks ==
    [pending |-> <<>>, done |-> <<>>,
     before  |-> [default_fields |-> <<>>, dynamic_fields |-> <<>>]]

\* What `last` holds right after construction: no call yet.
NoCall == [op |-> "new", view |-> "", key |-> "", value |-> "", ret |-> ""]

\* A FieldHelper call, its receiver, arguments and result.
Call(name, view, key, value, ret) ==
    [op |-> name, view |-> view, key |-> key, value |-> value, ret |-> ret]

FieldFrame == UNCHANGED <<arrays, ref, helper, tasks, events, sdkVars>>

\* FieldHelper.setValue through defaultFields() / dynamicFields(): returns this.
setValue(view, lbl_id, value) ==
    /\ heap' = assignValue(getField(View(view), lbl_id), value)
    /\ last' = Call("setValue", view, lbl_id, value, view)
    /\ FieldFrame

\* FieldHelper.setValueByLabel: returns this.
setValueByLabel(view, label, value) ==
    /\ heap' = assignValue(getFieldByLabel(View(view), label), value)
    /\ last' = Call("setValueByLabel", view, label, value, view)
    /\ FieldFrame

\* A caller reads a value by id.
GetValue(view, lbl_id) ==
    /\ last' = Call("getValue", view, lbl_id, "", getValue(View(view), lbl_id))
    /\ UNCHANGED heap
    /\ FieldFrame

\* A caller reads a value by label.
GetValueByLabel(view, label) ==
    /\ last' = Call("getValueByLabel", view, label, "", getValueByLabel(View(view), label))
    /\ UNCHANGED heap
    /\ FieldFrame

\* A caller looks a field up by id.
GetField(view, lbl_id) ==
    /\ last' = Call("getField", view, lbl_id, "", getField(View(view), lbl_id))
    /\ UNCHANGED heap
    /\ FieldFrame

\* A caller looks a field up by label.
GetFieldByLabel(view, label) ==
    /\ last' = Call("getFieldByLabel", view, label, "", getFieldByLabel(View(view), label))
    /\ UNCHANGED heap
    /\ FieldFrame

\* The array instance that replaces a group's array on the record.
Replacement(group) == IF group = "default_fields" THEN "default2" ELSE "dynamic2"

Range(s) == { s[i] : i \in DOMAIN s }

\* The caller assigns a new array to ref.default_fields / ref.dynamic_fields
\* after wrapping (ref is a public property of the accessor):
\*   "copy"  - a new array of the same Field objects ([...old], slice())
\*   "fresh" - a new array of new Field objects (FreshInput)
\* Objects nothing refers to any more are dropped.
ReplaceFields(group, kind) ==
    LET old     == ref[group]
        new     == Replacement(group)
        n       == Len(FreshInput)
        elems   == IF kind = "copy" THEN arrays[old]
                   ELSE [i \in 1..n |-> <<new, i>>]
        created == [o \in ObjIds(new, n) |-> FreshInput[o[2]]]
        heapAll == IF kind = "copy" THEN heap ELSE created @@ heap
        arrays2 == (new :> elems) @@ arrays
        live    == UNION { Range(arrays2[a]) : a \in DOMAIN arrays2 }
    IN  /\ arrays' = arrays2
        /\ heap' = [o \in live |-> heapAll[o]]
        /\ ref' = [ref EXCEPT ![group] = new]
        /\ last' = Call("replace", group, kind, "", "")
        /\ UNCHANGED <<helper, tasks, events, sdkVars>>

(***************************************************************************)
(* Tasks that share a helper.                                              *)
(* setValue has no await: a call runs from its lookup to its return within *)
(* one turn of the event loop, and tasks interleave between calls only.    *)
(***************************************************************************)
\* The async tasks of a caller.
Tasks == {"t1", "t2", "t3"}

\* Most setValue calls one task makes.
MaxWrites == 1

\* The value a task writes: each task its own.
TaskValue(t) == CASE t = "t1" -> "A" [] t = "t2" -> "B" [] OTHER -> "C"

\* The setValue calls a task makes, in order: through defaultFields(), on
\* the ids f1 and f2.
TaskPrograms(t) ==
    SeqsUpTo({ [view |-> "default", key |-> k, value |-> TaskValue(t)] : k \in {"f1", "f2"} },
             MaxWrites)

\* A task makes its next setValue call: lookup, write and return in one step.
TaskSetValue(t) ==
    /\ tasks.pending[t] # <<>>
    /\ LET w == Head(tasks.pending[t])
       IN  /\ heap' = assignValue(getField(View(w.view), w.key), w.value)
           /\ last' = Call("setValue", w.view, w.key, w.value, w.view)
           /\ tasks' = [tasks EXCEPT !.pending[t] = Tail(@),
                                     !.done = Append(@, [task |-> t] @@ w)]
    /\ UNCHANGED <<arrays, ref, helper, events, sdkVars>>

(***************************************************************************)
(* SDK: JavaScript values of the requests.                                 *)
(***************************************************************************)
\* The members of the enum TemplateType.
Customer == 1

Deal == 2

Job == 3

Asset == 4

Product == 5

DF01 == 6

DF02 == 7

DF03 == 8

DF04 == 9

DF05 == 10

DF06 == 11

DF07 == 12

PF == 13

TemplateType ==
    {Customer, Deal, Job, Asset, Product, DF01, DF02, DF03, DF04, DF05, DF06, DF07, PF}

\* TemplateType members the operations are called with.
TemplateTypes == {Customer, Job}

\* undefined: an optional property or argument that is not supplied.
absent == [t |-> "undefined"]

Str(s) == [t |-> "string", v |-> s]

Bool(b) == [t |-> "boolean", v |-> b]

Blob(b) == [t |-> "blob", v |-> b]

\* A plain object, by its own enumerable properties (a Filter: its predicates).
Obj(v) == [t |-> "object", v |-> v]

\* A string that holds the JSON text of the object `of`, encoded as a JSON
\* string `quoted` times over.
Json(of, quoted) == [t |-> "json", of |-> of, quoted |-> quoted]

\* new URL(...): WHATWG URL.
URL(protocol, host, pathname) ==
    [t |-> "URL", protocol |-> protocol, host |-> host, pathname |-> pathname]

\* URL.prototype.toString: the href.
toString(u) == Str(u.protocol \o "//" \o u.host \o u.pathname)

\* truthy with a fault: an object without properties is falsy.
truthyNonEmpty(x) ==
    CASE x.t = "undefined" -> FALSE
      [] x.t = "string"    -> x.v # ""
      [] x.t = "boolean"   -> x.v
      [] x.t = "object"    -> x.v # {}
      [] OTHER             -> TRUE

\* JavaScript truthiness.
truthy(x) ==
    CASE x.t = "undefined" -> FALSE
      [] x.t = "string"    -> x.v # ""
      [] x.t = "boolean"   -> x.v
      [] OTHER             -> TRUE

\* x ?? d
nullish(x, d) == IF x.t = "undefined" THEN d ELSE x

\* JSON.stringify of an object, or of a string that already holds JSON text.
stringify(x) ==
    IF x.t = "object" THEN Json(x.v, 0) ELSE Json(x.of, x.quoted + 1)

\* A moment: an instant (hours since the epoch) bound to a zone.
Moment(instant, zone) == [t |-> "moment", instant |-> instant, zone |-> zone]

\* UTC offsets of the zones, in hours.
Offset(zone) ==
    CASE zone = "Asia/Kuala_Lumpur" -> 8
      [] zone = "America/New_York"  -> -5
      [] OTHER                      -> 0

\* Moment.format('YYYY-MM-DD HH:mm:ss'): the wall clock of the moment's zone.
format(m) ==
    LET wall == m.instant + Offset(m.zone)
    IN  [t |-> "datetime", day |-> wall \div 24, hour |-> wall % 24]

\* momentTz with a fault: the moment is bound to the zone of the caller's
\* process (UTC) instead of the zone asked for.
momentLocal(now, zone) == Moment(now, "UTC")

\* moment.tz('Asia/Kuala_Lumpur') at the instant `now`.
momentTz(now, zone) == Moment(now, zone)

\* FormData.append: a Blob is kept as a file, any other value becomes a string.
append(formData, name, value) ==
    Append(formData,
           [name |-> name,
            value |-> CASE value.t = "blob"      -> [t |-> "file", v |-> value.v]
                        [] value.t = "boolean"   -> Str(IF value.v THEN "true" ELSE "false")
                        [] value.t = "undefined" -> Str("undefined")
                        [] OTHER                 -> value])

\* An AxiosRequestConfig: method "" and headers <<>> when not supplied.
Config(method, params, data) ==
    [method |-> method, headers |-> <<>>, params |-> params, data |-> data]

(***************************************************************************)
(* SDK: inputs.                                                            *)
(***************************************************************************)
\* How many times over the caller's filter may get JSON-encoded.
MaxEncode == 2

\* The SDK instances: a base URL without and with a trailing slash.
SDKs ==
    { SDK(<<"https:", "/", "/", "api.example.com">>, "k1", "s1"),
      SDK(<<"https:", "/", "/", "api.example.com", "/">>, "k2", "s2") }

\* Filters: an empty one and one with a predicate.
Filters == { Obj({}), Obj({"name"}) }

\* The caller's AssetFilterOptions / ProductFilterOptions objects.
OptionObjects == { [filter |-> f, page |-> 1] : f \in {absent} \cup Filters }

\* SearchOptions, or none.
SearchInputs ==
    {absent} \cup
    { [t |-> "object", filter |-> f, category |-> c] :
        f \in {absent} \cup Filters, c \in {absent, Str(""), Str("c1")} }

\* Instants of the clock and of the moments callers pass.
Instants == {0, 20}

Moments ==
    { Moment(i, z) : i \in Instants, z \in {"UTC", "America/New_York"} }

\* UploadAttachmentOptions: the "file" variant carries a Blob, the "link"
\* variant a URL; the object may carry the other variant's property too.
\* field is the first default field of the caller's record.
UploadInputs ==
    { [field |-> Field([lbl_id |-> "f1", label |-> "Name"], "A"),
       type |-> ft, filetype |-> v, file |-> f, link |-> l,
       replace |-> r, filename |-> n] :
        ft \in {"default", "dynamic"},
        v \in {"file", "link"},
        f \in {absent, Blob("b1")},
        l \in {absent, URL("https:", "files.example.com", "/a.pdf")},
        r \in {absent, Bool(TRUE), Bool(FALSE)},
        n \in {absent, Str(""), Str("a.pdf")} }

\* The options TypeScript accepts: each variant with its own payload.
TypedUploadInputs ==
    { d \in UploadInputs :
        /\ d.filetype = "file" => d.file # absent
        /\ d.filetype = "link" => d.link # absent }

\* Headers a caller-built AxiosRequestConfig supplies.
HeaderInputs ==
    { <<>>, [key |-> "other"], [secret |-> "other"],
      [key |-> "other", secret |-> "other2"], [accept |-> "json"] }

\* What the transport answers with: a response whose body is an envelope
\* (error <<>>: no error array), or a failure.
Envelopes == { [data |-> "payload", error |-> e] : e \in {<<>>, <<"E1">>} }

Responses == { [t |-> "response", status |-> 200, data |-> e] : e \in Envelopes }

Errors ==
    { [t |-> "error", message |-> m] :
        m \in {"Network Error", "Request failed with status code 500"} }

(***************************************************************************)
(* SDK: call, _call and the operations.                                    *)
(***************************************************************************)
\* _call with a fault: the defaults are merged after the supplied headers.
_callDefaultsWin(this, path, options, version) ==
    [url    |-> url(this, path, version),
     config |-> [options EXCEPT
                   !.method  = IF options.method # "" THEN options.method ELSE "GET",
                   !.headers = [key |-> this.apiKey, secret |-> this.apiSecret]
                                   @@ options.headers]]

\* SDK._call: the transport invocation axios(url, options) it makes.
_call(this, path, options, version) ==
    [url    |-> url(this, path, version),
     config |-> [options EXCEPT
                   !.method  = IF options.method # "" THEN options.method ELSE "GET",
                   !.headers = options.headers
                                   @@ [key |-> this.apiKey, secret |-> this.apiSecret]]]

\* A promise that has not settled, that resolved, that rejected.
Pending == [state |-> "pending", value |-> absent]

Resolved(v) == [state |-> "resolved", value |-> v]

Rejected(e) == [state |-> "rejected", value |-> e]

\* The Field objects of a group of the caller's record, in order.
Fields(group) == [i \in DOMAIN arrays[ref[group]] |-> heap[arrays[ref[group]][i]]]

\* The two field collections of the caller's record (DataTemplate).
RecordFields ==
    [default_fields |-> Fields("default_fields"),
     dynamic_fields |-> Fields("dynamic_fields")]

NoOp == [name |-> "", args |-> <<>>,
         record |-> [default_fields |-> <<>>, dynamic_fields |-> <<>>]]

\* Begin with a fault: building the request clears the values of the record's
\* Field objects.
BeginClearing(name, args, path, options, version) ==
    /\ pc = "idle"
    /\ pc' = "awaiting"
    /\ op' = [name |-> name, args |-> args, record |-> RecordFields]
    /\ sent' = Append(sent, _call(sdk, path, options, version))
    /\ resolved' = [path |-> path, version |-> version, url |-> url(sdk, path, version)]
    /\ outcome' = Pending
    /\ heap' = [o \in DOMAIN heap |-> [heap[o] EXCEPT !.value = ""]]
    /\ UNCHANGED <<sdk, reply, arrays, ref, helper, last, tasks, events>>

\* An operation runs up to its await of the transport: it goes through
\* call / _call (or _call alone), which resolves the URL and invokes axios.
Begin(name, args, path, options, version) ==
    /\ pc = "idle"
    /\ pc' = "awaiting"
    /\ op' = [name |-> name, args |-> args, record |-> RecordFields]
    /\ sent' = Append(sent, _call(sdk, path, options, version))
    /\ resolved' = [path |-> path, version |-> version, url |-> url(sdk, path, version)]
    /\ outcome' = Pending
    /\ UNCHANGED <<sdk, reply, fieldVars>>

getCategory(type) ==
    /\ Begin("getCategory", <<type>>, <<"/", "category">>,
             Config("GET", [type |-> type], absent), "v1")
    /\ UNCHANGED opts

getStatus(type, category) ==
    /\ Begin("getStatus", <<type, category>>, <<"/", "status">>,
             Config("GET", [type |-> type, category |-> category], absent), "v1")
    /\ UNCHANGED opts

getTemplate(type, category) ==
    /\ Begin("getTemplate", <<type, category>>, <<"/", "template">>,
             Config("", [type |-> type, category |-> category], absent), "v1")
    /\ UNCHANGED opts

\* params = option; if (option?.filter) params.filter = JSON.stringify(...):
\* params is the caller's object itself.
FilteredParams(option) ==
    IF truthy(option.filter)
    THEN [option EXCEPT !.filter = stringify(option.filter)]
    ELSE option

\* The filter may be encoded once more.
CanEncode(option) ==
    option.filter.t = "json" => option.filter.quoted + 1 < MaxEncode

\* getAssets(option) with the caller's options object.
getAssets ==
    /\ CanEncode(opts)
    /\ opts' = FilteredParams(opts)
    /\ Begin("getAssets", <<opts>>, <<"/", "asset">>,
             Config("", FilteredParams(opts), absent), "v1")

\* getAssets() without options.
getAssetsNoOption ==
    /\ Begin("getAssets", <<>>, <<"/", "asset">>, Config("", absent, absent), "v1")
    /\ UNCHANGED opts

getAssetMapping(params) ==
    /\ Begin("getAssetMapping", <<params>>, <<"/", "asset-mapping">>,
             Config("", params, absent), "v1")
    /\ UNCHANGED opts

syncAttachAssetList(option) ==
    /\ Begin("syncAttachAssetList", <<option>>, <<"/", "asset-attach-list">>,
             Config("PATCH", absent, option.data), "v1")
    /\ UNCHANGED opts

\* getProducts(options) with the caller's options object.
getProducts ==
    /\ CanEncode(opts)
    /\ opts' = FilteredParams(opts)
    /\ Begin("getProducts", <<opts>>, <<"/", "product">>,
             Config("", FilteredParams(opts), absent), "v1")

\* getProducts() without options.
getProductsNoOption ==
    /\ Begin("getProducts", <<>>, <<"/", "product">>, Config("", absent, absent), "v1")
    /\ UNCHANGED opts

getAttachedProducts(type, ref_id) ==
    /\ Begin("getAttachedProducts", <<type, ref_id>>, <<"/", "product-attached">>,
             Config("", [type |-> type, ref_id |-> ref_id], absent), "v1")
    /\ UNCHANGED opts

attachProduct(type, ref_id, data) ==
    /\ Begin("attachProduct", <<type, ref_id, data>>, <<"/", "add-product">>,
             Config("POST", absent, [type |-> type, ref_id |-> ref_id, data |-> data]),
             "v1")
    /\ UNCHANGED opts

\* The params search builds: type, filter when truthy, category when truthy.
SearchParams(type, option) ==
    LET filter   == IF option = absent THEN absent ELSE option.filter
        category == IF option = absent THEN absent ELSE option.category
    IN  [type     |-> type,
         filter   |-> IF truthy(filter) THEN stringify(filter) ELSE absent,
         category |-> IF truthy(category) THEN category ELSE absent]

search(type, option) ==
    /\ Begin("search", <<type, option>>, <<"/", "search">>,
             Config("", SearchParams(type, option), absent), "v1")
    /\ UNCHANGED opts

\* createData(data): data is the caller's record.
createData(data) ==
    /\ Begin("createData", <<data>>, <<"/", "data">>, Config("POST", absent, data), "v1")
    /\ UNCHANGED opts

\* updateData(type, data): data is the caller's record, with its ref_id.
updateData(type, data) ==
    /\ Begin("updateData", <<type, data>>, <<"/", "data">>,
             Config("PATCH", [type |-> type, ref_id |-> data.ref_id], data), "v1")
    /\ UNCHANGED opts

\* update_date = update_date ?? moment.tz('Asia/Kuala_Lumpur')
updateStatus(type, ref_id, status, update_date, now) ==
    LET date == nullish(update_date, momentTz(now, "Asia/Kuala_Lumpur"))
    IN  /\ Begin("updateStatus", <<type, ref_id, status, update_date, now>>,
                 <<"/", "data", "/", "status">>,
                 Config("PATCH",
                        [type |-> type, ref_id |-> ref_id, update_date |-> format(date)],
                        [status |-> status]),
                 "v1")
        /\ UNCHANGED opts

statusLogData(type, ref_id, status) ==
    /\ Begin("statusLogData", <<type, ref_id, status>>,
             <<"/", "data", "/", "status", "/", "log">>,
             Config("GET", [type |-> type, ref_id |-> ref_id, status |-> status], absent),
             "v1")
    /\ UNCHANGED opts

\* params = Object.assign({}, option, { type, ref_id })
allStatusLog(type, ref_id, option) ==
    /\ Begin("allStatusLog", <<type, ref_id, option>>,
             <<"/", "data", "/", "status", "/", "all-logs">>,
             Config("GET", [type |-> type, ref_id |-> ref_id] @@ option, absent), "v1")
    /\ UNCHANGED opts

getDetail(type, ref_id) ==
    /\ Begin("getDetail", <<type, ref_id>>, <<"/", "data">>,
             Config("", [type |-> type, ref_id |-> ref_id], absent), "v1")
    /\ UNCHANGED opts

getAttachments(type, ref_id) ==
    /\ Begin("getAttachments", <<type, ref_id>>, <<"/", "data", "/", "attachment">>,
             Config("", [type |-> type, ref_id |-> ref_id], absent), "v2")
    /\ UNCHANGED opts

\* AttachmentBody with a fault: the replace flag is appended as the boolean.
AttachmentBodyBoolean(type, ref_id, data) ==
    LET fd1 == append(<<>>, "type", Str(ToString(type)))
        fd2 == append(fd1, "ref_id", Str(ref_id))
        fd3 == append(fd2, "lbl_id", Str(data.field.lbl_id))
        fd4 == append(fd3, "field_type", Str(data.type))
        fd5 == IF data.filetype = "file" THEN append(fd4, "file", data.file)
               ELSE append(fd4, "link", toString(data.link))
        fd6 == append(fd5, "replace", nullish(data.replace, Bool(FALSE)))
    IN  IF truthy(data.filename) THEN append(fd6, "filename", data.filename) ELSE fd6

\* AttachmentBody with a fault: every payload property the options carry is appended.
AttachmentBodyBoth(type, ref_id, data) ==
    LET fd1 == append(<<>>, "type", Str(ToString(type)))
        fd2 == append(fd1, "ref_id", Str(ref_id))
        fd3 == append(fd2, "lbl_id", Str(data.field.lbl_id))
        fd4 == append(fd3, "field_type", Str(data.type))
        fd5 == IF data.file # absent THEN append(fd4, "file", data.file) ELSE fd4
        fd6 == IF data.link # absent THEN append(fd5, "link", toString(data.link)) ELSE fd5
        fd7 == append(fd6, "replace",
                      IF truthy(nullish(data.replace, Bool(FALSE))) THEN Str("1") ELSE Str("0"))
    IN  IF truthy(data.filename) THEN append(fd7, "filename", data.filename) ELSE fd7

\* The FormData uploadAttachment builds.
AttachmentBody(type, ref_id, data) ==
    LET fd1 == append(<<>>, "type", Str(ToString(type)))
        fd2 == append(fd1, "ref_id", Str(ref_id))
        fd3 == append(fd2, "lbl_id", Str(data.field.lbl_id))
        fd4 == append(fd3, "field_type", Str(data.type))
        fd5 == IF data.filetype = "file" THEN append(fd4, "file", data.file)
               ELSE append(fd4, "link", toString(data.link))
        fd6 == append(fd5, "replace",
                      IF truthy(nullish(data.replace, Bool(FALSE))) THEN Str("1") ELSE Str("0"))
    IN  IF truthy(data.filename) THEN append(fd6, "filename", data.filename) ELSE fd6

\* uploadAttachment with a fault: the attachment path is resolved with v2.
uploadAttachmentV2(type, ref_id, data) ==
    /\ Begin("uploadAttachment", <<type, ref_id, data>>,
             <<"/", "data", "/", "attachment">>,
             Config("POST", absent, [t |-> "FormData", entries |-> AttachmentBody(type, ref_id, data)]),
             "v2")
    /\ UNCHANGED opts

uploadAttachment(type, ref_id, data) ==
    /\ Begin("uploadAttachment", <<type, ref_id, data>>,
             <<"/", "data", "/", "attachment">>,
             Config("POST", absent, [t |-> "FormData", entries |-> AttachmentBody(type, ref_id, data)]),
             "v1")
    /\ UNCHANGED opts

getPermissions(type, ref_id) ==
    /\ Begin("getPermissions", <<type, ref_id>>, <<"/", "data", "/", "permission">>,
             Config("GET", [type |-> type, ref_id |-> ref_id], absent), "v1")
    /\ UNCHANGED opts

savePermissions(type, ref_id, perm) ==
    /\ Begin("savePermissions", <<type, ref_id, perm>>, <<"/", "data", "/", "permission">>,
             Config("PATCH", [type |-> type, ref_id |-> ref_id], perm), "v1")
    /\ UNCHANGED opts

saveComment(type, ref_id, content) ==
    /\ Begin("saveComment", <<type, ref_id, content>>, <<"/", "add-comment">>,
             Config("POST", absent, [type |-> type, ref_id |-> ref_id, content |-> content]),
             "v1")
    /\ UNCHANGED opts

\* params: type Job, ref_id, start / end when supplied.
TravelParams(ref_id, options) ==
    LET start == IF options = absent THEN absent ELSE options.start
        end   == IF options = absent THEN absent ELSE options.end
    IN  [type   |-> Job,
         ref_id |-> ref_id,
         start  |-> IF truthy(start) THEN format(start) ELSE absent,
         end    |-> IF truthy(end) THEN format(end) ELSE absent]

getJobTravelList(ref_id, options) ==
    /\ Begin("getJobTravelList", <<ref_id, options>>, <<"/", "data", "/", "checkin">>,
             Config("GET", TravelParams(ref_id, options), absent), "v1")
    /\ UNCHANGED opts

getMileageAndDuration(ref_id) ==
    /\ Begin("getMileageAndDuration", <<ref_id>>, <<"/", "data", "/", "travel">>,
             Config("GET", [type |-> Job, ref_id |-> ref_id], absent), "v1")
    /\ UNCHANGED opts

getUsers ==
    /\ Begin("getUsers", <<>>, <<"/", "users">>, Config("GET", absent, absent), "v1")
    /\ UNCHANGED opts

getDepartments ==
    /\ Begin("getDepartments", <<>>, <<"/", "departments">>,
             Config("GET", absent, absent), "v1")
    /\ UNCHANGED opts

\* _call with a caller-built AxiosRequestConfig: the method every operation
\* goes through (private in TypeScript only), here with options.headers set.
CallWithHeaders(headers) ==
    /\ Begin("_call", <<headers>>, <<"/", "users">>,
             [Config("", absent, absent) EXCEPT !.headers = headers], "v1")
    /\ UNCHANGED opts

\* The URL a CallbackHelper is constructed on.
CallbackUrl == <<"https:", "/", "/", "hooks.example.com", "/", "cb">>

\* CallbackHelper.success / fail: axios.post(url, body), no request config.
Post(name, args, body) ==
    /\ pc = "idle"
    /\ pc' = "awaiting"
    /\ op' = [name |-> name, args |-> args, record |-> RecordFields]
    /\ sent' = Append(sent, [url    |-> CallbackUrl,
                             config |-> Config("POST", absent, body)])
    /\ outcome' = Pending
    /\ UNCHANGED <<sdk, reply, fieldVars>>

success ==
    /\ Post("CallbackHelper.success", <<>>, [status |-> 2])
    /\ UNCHANGED <<resolved, opts>>

fail(error_code) ==
    /\ Post("CallbackHelper.fail", <<error_code>>,
            [status |-> -1, error_code |-> error_code])
    /\ UNCHANGED <<resolved, opts>>

\* The operations that go through call: they resolve with the response body.
\* attachProduct and updateStatus resolve with true; getAttachedProducts,
\* _call and the CallbackHelper methods await axios themselves.
OnFulfilled(o, resp) ==
    CASE o.name \in {"attachProduct", "updateStatus"} -> Resolved(Bool(TRUE))
      [] o.name \in {"_call", "CallbackHelper.success", "CallbackHelper.fail"} ->
            Resolved(resp)
      [] OTHER -> Resolved(resp.data)

\* OnRejected with a fault: the failure is logged and a default result returned.
OnRejectedDefault(o, error) == Resolved(absent)

\* Every catch block logs and rethrows the error it caught; the operations
\* without one let the rejection through.
OnRejected(o, error) == Rejected(error)

\* The transport call of the operation in progress succeeds.
TransportResolves(resp) ==
    /\ pc = "awaiting"
    /\ pc' = "settled"
    /\ reply' = resp
    /\ outcome' = OnFulfilled(op, resp)
    /\ UNCHANGED <<sdk, resolved, opts, op, sent, fieldVars>>

\* The transport call of the operation in progress fails.
TransportRejects(error) ==
    /\ pc = "awaiting"
    /\ pc' = "settled"
    /\ reply' = error
    /\ outcome' = OnRejected(op, error)
    /\ UNCHANGED <<sdk, resolved, opts, op, sent, fieldVars>>

\* The caller has the operation's result and may start the next one.
Return ==
    /\ pc = "settled"
    /\ pc' = "idle"
    /\ op' = NoOp
    /\ sent' = <<>>
    /\ reply' = absent
    /\ outcome' = Pending
    /\ UNCHANGED <<sdk, resolved, opts, fieldVars>>

(***************************************************************************)
(* toTemplateType                                                          *)
(***************************************************************************)
\* A number.
Num(n) == [t |-> "number", v |-> n]

\* A function object, by its name.
Function(name) == [t |-> "function", name |-> name]

\* The table of toTemplateType: its own properties.
WEBHOOK ==
    [customer    |-> Customer,
     deal        |-> Deal,
     activity    |-> Asset,
     asset       |-> Asset,
     product     |-> Product,
     DR01        |-> DF01,
     DR02        |-> DF02,
     DR03        |-> DF03,
     DR04        |-> DF04,
     DR05        |-> DF05,
     DR06        |-> DF06,
     DR07        |-> DF07,
     public_form |-> PF]

\* Properties every object literal inherits from Object.prototype (some).
ObjectPrototype ==
    [constructor    |-> Function("Object"),
     toString       |-> Function("toString"),
     hasOwnProperty |-> Function("hasOwnProperty")]

\* key in object: an own or an inherited property.
in(key, own) == key \in DOMAIN own \cup DOMAIN ObjectPrototype

\* object[key]: the own property, else the inherited one.
get(own, key) == IF key \in DOMAIN own THEN Num(own[key]) ELSE ObjectPrototype[key]

toTemplateType(type) == IF in(type, WEBHOOK) THEN get(WEBHOOK, type) ELSE Bool(FALSE)

\* Most type names a handler has to convert.
MaxEvents == 2

\* The type names webhooks arrive with: the names of the table, other names,
\* names of properties that objects inherit.
TypeNames ==
    DOMAIN WEBHOOK \cup {"", "job", "Customer", "constructor", "toString"}

\* A webhook handler converts the next type name.
ToTemplateType ==
    /\ events # <<>>
    /\ last' = Call("toTemplateType", "", Head(events), "", toTemplateType(Head(events)))
    /\ events' = Tail(events)
    /\ UNCHANGED <<heap, arrays, ref, helper, tasks, sdkVars>>

(***************************************************************************)
(* The specifications.                                                     *)
(***************************************************************************)
\* No SDK takes part in the field model.
NoOperation ==
    /\ opts = [filter |-> absent, page |-> 1]
    /\ pc = "idle"
    /\ op = NoOp
    /\ sent = <<>>
    /\ reply = absent
    /\ outcome = Pending

IdleSDK ==
    /\ sdk = SDK(<<"a">>, "k1", "s1")
    /\ resolved = NoUrl
    /\ NoOperation

\* A record with the default_fields d and the dynamic_fields y, and the
\* DataHelper built on it: two array instances of Field objects of their own
\* (a record is a JSON tree: the two groups share nothing).
Record(d, y) ==
    /\ arrays = [a \in Views |->
                    IF a = "default" THEN [i \in 1..Len(d) |-> <<"default", i>>]
                    ELSE [i \in 1..Len(y) |-> <<"dynamic", i>>]]
    /\ heap = [o \in ObjIds("default", Len(d)) \cup ObjIds("dynamic", Len(y)) |->
                    IF o[1] = "default" THEN d[o[2]] ELSE y[o[2]]]
    /\ ref = [default_fields |-> "default", dynamic_fields |-> "dynamic"]
    /\ helper = DataHelper([default_fields |-> "default", dynamic_fields |-> "dynamic"])
    /\ last = NoCall

\* No record takes part in URL resolution.
NoRecord == Record(<<>>, <<>>)

InitFields ==
    \E d \in DefaultInputs, y \in DynamicInputs :
        /\ Record(d, y)
        /\ tasks = NoTasks
        /\ events = <<>>
        /\ IdleSDK

NextFields ==
    \/ \E v \in Views, id \in LookupIds, x \in Values : setValue(v, id, x)
    \/ \E v \in Views, l \in LookupLabels, x \in Values : setValueByLabel(v, l, x)
    \/ \E v \in Views, id \in LookupIds : GetValue(v, id)
    \/ \E v \in Views, l \in LookupLabels : GetValueByLabel(v, l)
    \/ \E g \in {"default_fields", "dynamic_fields"}, k \in {"copy", "fresh"} :
            ReplaceFields(g, k)

SpecFields == InitFields /\ [][NextFields]_vars

\* The six methods of the two helpers of a record, called in any order.
NextLookups ==
    \/ \E v \in Views, id \in LookupIds, x \in Values : setValue(v, id, x)
    \/ \E v \in Views, l \in LookupLabels, x \in Values : setValueByLabel(v, l, x)
    \/ \E v \in Views, id \in LookupIds : GetValue(v, id)
    \/ \E v \in Views, l \in LookupLabels : GetValueByLabel(v, l)
    \/ \E v \in Views, id \in LookupIds : GetField(v, id)
    \/ \E v \in Views, l \in LookupLabels : GetFieldByLabel(v, l)

SpecLookups == InitFields /\ [][NextLookups]_vars

\* The records the tasks' helper is built on: ids of their own in the default
\* group and one of them in the dynamic group too; one id under two labels.
TaskRecords ==
    { [default_fields |-> << Field([lbl_id |-> "f1", label |-> "Name"], "A"),
                             Field([lbl_id |-> "f2", label |-> "Phone"], "B") >>,
       dynamic_fields |-> << Field([lbl_id |-> "f1", label |-> "Name"], "B") >>],
      [default_fields |-> << Field([lbl_id |-> "f2", label |-> "Name"], "A"),
                             Field([lbl_id |-> "f2", label |-> "Phone"], "A") >>,
       dynamic_fields |-> <<>>] }

\* Tasks with their calls still to make share the DataHelper of a record.
InitTasks ==
    \E r \in TaskRecords :
        /\ Record(r.default_fields, r.dynamic_fields)
        /\ \E p \in [Tasks -> UNION { TaskPrograms(t) : t \in Tasks }] :
                /\ \A t \in Tasks : p[t] \in TaskPrograms(t)
                /\ tasks = [pending |-> p, done |-> <<>>, before |-> r]
        /\ events = <<>>
        /\ IdleSDK

\* Any task with a call to make may be the next to run.
NextTasks == \E t \in Tasks : TaskSetValue(t)

SpecTasks == InitTasks /\ [][NextTasks]_vars

\* A webhook handler with type names to convert.
InitTemplate ==
    /\ events \in SeqsUpTo(TypeNames, MaxEvents)
    /\ NoRecord
    /\ tasks = NoTasks
    /\ IdleSDK

NextTemplate == ToTemplateType

SpecTemplate == InitTemplate /\ [][NextTemplate]_vars

\* URL resolution: an SDK on any base URL resolves any path and version.
InitUrl ==
    /\ \E b \in SeqsUpTo(Pieces, MaxBase) : sdk = SDK(b, "k1", "s1")
    /\ resolved = NoUrl
    /\ NoOperation
    /\ NoRecord
    /\ tasks = NoTasks
    /\ events = <<>>

NextUrl == \E p \in SeqsUpTo(Pieces, MaxPath), v \in Versions : Url(p, v)

SpecUrl == InitUrl /\ [][NextUrl]_vars

\* The records the callers of createData / updateData / uploadAttachment hold.
RecordInputs ==
    { [default_fields |-> << Field([lbl_id |-> "f1", label |-> "Name"], "A") >>,
       dynamic_fields |-> <<>>],
      [default_fields |-> << Field([lbl_id |-> "f1", label |-> "Name"], "A"),
                             Field([lbl_id |-> "f2", label |-> "Phone"], "B") >>,
       dynamic_fields |-> << Field([lbl_id |-> "f9", label |-> "Fax"], "B") >>] }

\* The SDK operations: an SDK instance, the caller's options object and
\* record, one operation at a time.
InitSDK ==
    /\ sdk \in SDKs
    /\ opts \in OptionObjects
    /\ resolved = NoUrl
    /\ pc = "idle"
    /\ op = NoOp
    /\ sent = <<>>
    /\ reply = absent
    /\ outcome = Pending
    /\ \E r \in RecordInputs : Record(r.default_fields, r.dynamic_fields)
    /\ tasks = NoTasks
    /\ events = <<>>

RefIds == {"r1"}

NextSDK ==
    \/ \E type \in TemplateTypes : getCategory(type)
    \/ \E type \in TemplateTypes : getStatus(type, "c1")
    \/ \E type \in TemplateTypes : getTemplate(type, "c1")
    \/ getAssets
    \/ getAssetsNoOption
    \/ \E type \in TemplateTypes : getAssetMapping([type |-> type, asset_id |-> "a1"])
    \/ \E type \in TemplateTypes, r \in RefIds :
            syncAttachAssetList([data |-> [type |-> type, ref_id |-> r, assets |-> <<"a1">>]])
    \/ getProducts
    \/ getProductsNoOption
    \/ \E type \in TemplateTypes, r \in RefIds : getAttachedProducts(type, r)
    \/ \E type \in TemplateTypes, r \in RefIds : attachProduct(type, r, <<"p1">>)
    \/ \E type \in TemplateTypes, o \in SearchInputs : search(type, o)
    \/ \E type \in TemplateTypes :
            createData([type |-> type] @@ RecordFields)
    \/ \E type \in TemplateTypes, r \in RefIds :
            updateData(type, [type |-> type, ref_id |-> r] @@ RecordFields)
    \/ \E type \in TemplateTypes, r \in RefIds, d \in {absent} \cup Moments, now \in Instants :
            updateStatus(type, r, "open", d, now)
    \/ \E type \in TemplateTypes, r \in RefIds : statusLogData(type, r, "open")
    \/ \E type \in TemplateTypes, r \in RefIds, o \in {<<>>, [page |-> 2, limit |-> 10]} :
            allStatusLog(type, r, o)
    \/ \E type \in TemplateTypes, r \in RefIds : getDetail(type, r)
    \/ \E type \in TemplateTypes, r \in RefIds : getAttachments(type, r)
    \/ \E type \in TemplateTypes, r \in RefIds, d \in TypedUploadInputs :
            uploadAttachment(type, r, d)
    \/ \E type \in TemplateTypes, r \in RefIds : getPermissions(type, r)
    \/ \E type \in TemplateTypes, r \in RefIds :
            savePermissions(type, r, [assign |-> "u1", view |-> "u2"])
    \/ \E type \in TemplateTypes, r \in RefIds : saveComment(type, r, "hello")
    \/ \E r \in RefIds, o \in {absent} \cup
                { [t |-> "object", start |-> a, end |-> b] :
                    a \in {absent, Moment(0, "UTC")}, b \in {absent, Moment(20, "UTC")} } :
            getJobTravelList(r, o)
    \/ \E r \in RefIds : getMileageAndDuration(r)
    \/ getUsers
    \/ getDepartments
    \/ \E h \in HeaderInputs : CallWithHeaders(h)
    \/ success
    \/ \E c \in {"", "E42"} : fail(c)
    \/ \E resp \in Responses : TransportResolves(resp)
    \/ \E e \in Errors : TransportRejects(e)
    \/ Return

SpecSDK == InitSDK /\ [][NextSDK]_vars

(***************************************************************************)
(* Properties of FieldHelper and DataHelper.                               *)
(***************************************************************************)
\* The array instance the view's helper was constructed on.
Wrapped(view) == IF view = "default" THEN "default" ELSE "dynamic"

UniqueIds(array) ==
    \A i, j \in DOMAIN arrays[array] :
        heap[arrays[array][i]].lbl_id = heap[arrays[array][j]].lbl_id => i = j

UniqueLabels(array) ==
    \A i, j \in DOMAIN arrays[array] :
        heap[arrays[array][i]].label = heap[arrays[array][j]].label => i = j

HasId(array, id) == \E i \in DOMAIN arrays[array] : heap[arrays[array][i]].lbl_id = id

HasLabel(array, l) == \E i \in DOMAIN arrays[array] : heap[arrays[array][i]].label = l

\* C1: on a collection with unique lbl_ids, right after setValue(id, v) on a
\* present id, getValue(id) returns v; on a collection with unique labels,
\* right after setValueByLabel(label, v) on a present label,
\* getValueByLabel(label) returns v.
C1_SetThenGet ==
    /\ ( /\ last.op = "setValue"
         /\ UniqueIds(View(last.view).fields)
         /\ HasId(View(last.view).fields, last.key) )
       => getValue(View(last.view), last.key) = last.value
    /\ ( /\ last.op = "setValueByLabel"
         /\ UniqueLabels(View(last.view).fields)
         /\ HasLabel(View(last.view).fields, last.key) )
       => getValueByLabel(View(last.view), last.key) = last.value

\* A two-field collection with unique ids, whose second field was just set.
C1_Witness ==
    /\ last.op = "setValue" /\ last.view = "default" /\ last.value = "B"
    /\ Len(arrays["default"]) = 2
    /\ UniqueIds("default")
    /\ heap[arrays["default"][2]].lbl_id = last.key
    /\ heap[arrays["default"][1]].value = "A"
    /\ getValue(View("default"), last.key) = "B"

\* The step is a call of setValue or setValueByLabel.
SetStep == last'.op \in {"setValue", "setValueByLabel"}

\* The first element of the view's collection whose lbl_id (setValue) or
\* label (setValueByLabel) is the key of the SetStep's call, in the state
\* before the call.
Target ==
    LET a    == arrays[Wrapped(last'.view)]
        hits == { i \in DOMAIN a :
                    IF last'.op = "setValue" THEN heap[a[i]].lbl_id = last'.key
                    ELSE heap[a[i]].label = last'.key }
    IN  IF hits = {} THEN NoField
        ELSE a[CHOOSE i \in hits : \A j \in hits : i <= j]

\* The Field objects whose value the step changes.
Changed == { o \in DOMAIN heap : heap'[o].value # heap[o].value }

\* C2: a setValue / setValueByLabel call leaves every array (length and
\* order) and every field's lbl_id, label and type as they were, creates no
\* field, changes the value of no field but the first match, of no field at
\* all when the key is absent, and returns the helper it was called on.
C2_SetFrame ==
    [][ SetStep =>
          /\ arrays' = arrays
          /\ DOMAIN heap' = DOMAIN heap
          /\ \A o \in DOMAIN heap :
                /\ heap'[o].lbl_id = heap[o].lbl_id
                /\ heap'[o].label = heap[o].label
                /\ heap'[o].type = heap[o].type
          /\ Changed \subseteq {Target}
          /\ Cardinality(Changed) <= 1
          /\ (Target = NoField => heap' = heap)
          /\ last'.ret = last'.view
      ]_vars

\* Two fields share the id just written: the first holds the new value, the
\* second still its own.
C2_Witness ==
    /\ last.op = "setValue" /\ last.view = "default" /\ last.value = "B"
    /\ Len(arrays["default"]) = 2
    /\ heap[arrays["default"][1]].lbl_id = last.key
    /\ heap[arrays["default"][2]].lbl_id = last.key
    /\ heap[arrays["default"][1]].value = "B"
    /\ heap[arrays["default"][2]].value = "A"

\* The Field objects of a group: of the array its helper holds and of the
\* array the record holds.
GroupObjects(view) ==
    Range(arrays[View(view).fields]) \cup Range(arrays[ref[GroupOf(view)]])

OtherView(view) == IF view = "default" THEN "dynamic" ELSE "default"

\* C3: a lookup through a view finds only Field objects of its own group, an
\* id only the other group holds reads as absent, and a setValue /
\* setValueByLabel through one view leaves every field of the other group
\* as it was.
C3_ViewsIndependent ==
    /\ [](\A v \in Views :
            /\ \A id \in LookupIds :
                  /\ getField(View(v), id) \in Range(arrays[Wrapped(v)]) \cup {NoField}
                  /\ ~HasId(Wrapped(v), id) => getValue(View(v), id) = undefined
            /\ \A l \in LookupLabels :
                  /\ getFieldByLabel(View(v), l) \in Range(arrays[Wrapped(v)]) \cup {NoField}
                  /\ ~HasLabel(Wrapped(v), l) => getValueByLabel(View(v), l) = undefined)
    /\ [][ SetStep =>
              \A o \in GroupObjects(OtherView(last'.view)) : heap'[o] = heap[o] ]_vars

\* f1 is in both groups; it was just set through defaultFields() and the
\* dynamic f1 kept its value; f2 is only in default_fields.
C3_Witness ==
    /\ last.op = "setValue" /\ last.view = "default" /\ last.key = "f1"
    /\ last.value = "B"
    /\ getValue(View("default"), "f1") = "B"
    /\ getValue(View("dynamic"), "f1") = "A"
    /\ HasId("default", "f2")
    /\ getValue(View("dynamic"), "f2") = undefined

\* C4: the accessor's helpers hold the array instances of the record they
\* were built on, so the record shows every value written through them for
\* as long as it holds those arrays; once the record holds a new array,
\* the accessor goes on reading and writing the array it was built on: a
\* read returns what that array holds, a write changes a field of that array
\* and no field that only the new array holds.
C4_Aliasing ==
    /\ [](\A v \in Views :
            /\ View(v).fields = Wrapped(v)
            /\ Replacement(GroupOf(v)) \notin DOMAIN arrays =>
                  ref[GroupOf(v)] = View(v).fields
            /\ last.op # "replace" /\ last.op # "new" /\ last.view = v =>
                  /\ last.op = "getValue" =>
                        last.ret = getValue([fields |-> Wrapped(v)], last.key)
                  /\ last.op = "getValueByLabel" =>
                        last.ret = getValueByLabel([fields |-> Wrapped(v)], last.key)
                  /\ (last.op = "setValue" /\ HasId(Wrapped(v), last.key)) =>
                        \E i \in DOMAIN arrays[Wrapped(v)] :
                            /\ heap[arrays[Wrapped(v)][i]].lbl_id = last.key
                            /\ heap[arrays[Wrapped(v)][i]].value = last.value
                  /\ (last.op = "setValueByLabel" /\ HasLabel(Wrapped(v), last.key)) =>
                        \E i \in DOMAIN arrays[Wrapped(v)] :
                            /\ heap[arrays[Wrapped(v)][i]].label = last.key
                            /\ heap[arrays[Wrapped(v)][i]].value = last.value)
    /\ [][ SetStep =>
              \A o \in DOMAIN heap :
                  o \notin Range(arrays[Wrapped(last'.view)]) => heap'[o] = heap[o] ]_vars

\* The record's default_fields was replaced by a new array with a new f1;
\* f1 was then set through the accessor: the old array's f1 holds the new
\* value, the new array's f1 does not.
C4_Witness ==
    /\ ref.default_fields = "default2"
    /\ arrays["default2"] # arrays["default"]
    /\ last.op = "setValue" /\ last.view = "default" /\ last.key = "f1"
    /\ last.value = "B"
    /\ getValue([fields |-> "default"], "f1") = "B"
    /\ getValue([fields |-> "default2"], "f1") = "A"

(***************************************************************************)
(* Properties of URL resolution.                                           *)
(***************************************************************************)
\* The number of slashes a string ends with / begins with.
RECURSIVE TrailingSlashes(_)
TrailingSlashes(str) ==
    IF endsWith(str, "/") THEN 1 + TrailingSlashes(SubSeq(str, 1, Len(str) - 1)) ELSE 0

RECURSIVE LeadingSlashes(_)
LeadingSlashes(str) ==
    IF startsWith(str, "/") THEN 1 + LeadingSlashes(SubSeq(str, 2, Len(str))) ELSE 0

\* The place of the version segment in a resolved URL (base URLs and paths
\* hold no version piece).
VersionAt(u, v) == CHOOSE i \in DOMAIN u : u[i] = v

\* The slashes between the end of the base and the version segment, and
\* between the version segment and the start of the path.
SeparatorsBefore(u, v) == TrailingSlashes(SubSeq(u, 1, VersionAt(u, v) - 1))

SeparatorsAfter(u, v) == LeadingSlashes(SubSeq(u, VersionAt(u, v) + 1, Len(u)))

OneSeparatorEach ==
    /\ SeparatorsBefore(resolved.url, resolved.version) = 1
    /\ SeparatorsAfter(resolved.url, resolved.version) = 1

\* C7 as claimed: for every base URL, version and path, the resolved URL has
\* exactly one separator between base and version segment and exactly one
\* between version segment and path.
C7_Original == resolved # NoUrl => OneSeparatorEach

\* C7, amended: for every base URL that ends with at most one slash and
\* every path that begins with at most one slash, the resolved URL has
\* exactly one separator between base and version segment and exactly one
\* between version segment and path.
C7_OneSeparator ==
    ( /\ resolved # NoUrl
      /\ TrailingSlashes(sdk.baseUrl) <= 1
      /\ LeadingSlashes(resolved.path) <= 1 ) => OneSeparatorEach

\* A base with a trailing slash and a path with a leading slash were resolved.
C7_Witness ==
    /\ resolved # NoUrl
    /\ sdk.baseUrl = <<"a", "/">>
    /\ resolved.path = <<"/", "a">>
    /\ resolved.url = <<"a", "/", resolved.version, "/", "a">>

\* C8: for every base b without a trailing slash, path p without a leading
\* slash and version v, resolving p or "/" + p on base b or b + "/" yields
\* b + "/" + v + "/" + p.
C8_SlashInsensitive ==
    resolved # NoUrl =>
        \A b \in SeqsUpTo(Pieces, MaxBase), p \in SeqsUpTo(Pieces, MaxPath) :
            ( /\ ~endsWith(b, "/") /\ ~startsWith(p, "/")
              /\ sdk.baseUrl \in {b, b \o <<"/">>}
              /\ resolved.path \in {p, <<"/">> \o p} )
            => /\ resolved.url = b \o <<"/", resolved.version, "/">> \o p
               /\ \A base \in {b, b \o <<"/">>}, path \in {p, <<"/">> \o p} :
                     url(SDK(base, sdk.apiKey, sdk.apiSecret), path, resolved.version)
                         = resolved.url

\* "/a" was resolved on a base without a trailing slash.
C8_Witness ==
    /\ resolved # NoUrl
    /\ sdk.baseUrl = <<"a", "/", "a">>
    /\ resolved.path = <<"/", "a">>
    /\ resolved.version = "v1"
    /\ resolved.url = <<"a", "/", "a", "/", "v1", "/", "a">>

(***************************************************************************)
(* Properties of the SDK operations.                                       *)
(***************************************************************************)
\* The parts of the multipart body of the uploadAttachment call in progress.
Parts == sent[1].config.data.entries

PartsNamed(name) == { i \in DOMAIN Parts : Parts[i].name = name }

Uploading == pc # "idle" /\ op.name = "uploadAttachment"

\* The options object of the uploadAttachment call in progress.
UploadData == op.args[3]

\* C5: the body uploadAttachment builds holds exactly one payload part: the
\* file (and no link part) for a "file" variant, the URL's string form under
\* link (and no file part) for a "link" variant, whatever other properties
\* the options carry.
C5_OnePayloadPart ==
    Uploading =>
        /\ Cardinality(PartsNamed("file") \cup PartsNamed("link")) = 1
        /\ UploadData.filetype = "file" =>
              /\ PartsNamed("link") = {}
              /\ \E i \in PartsNamed("file") :
                    Parts[i].value = [t |-> "file", v |-> UploadData.file.v]
        /\ UploadData.filetype = "link" =>
              /\ PartsNamed("file") = {}
              /\ \E i \in PartsNamed("link") :
                    Parts[i].value = Str("https://files.example.com/a.pdf")

\* A "file" variant whose options object carries a link property as well.
C5_Witness ==
    /\ Uploading
    /\ UploadData.filetype = "file"
    /\ UploadData.link # absent
    /\ PartsNamed("file") # {}
    /\ PartsNamed("link") = {}

\* C6: the body uploadAttachment builds holds one replace part, the string
\* "1" when options.replace is true and the string "0" when it is false or
\* not supplied.
C6_ReplaceFlag ==
    Uploading =>
        /\ Cardinality(PartsNamed("replace")) = 1
        /\ \A i \in PartsNamed("replace") :
              /\ Parts[i].value.t = "string"
              /\ Parts[i].value.v =
                    IF UploadData.replace = Bool(TRUE) THEN "1" ELSE "0"

\* An upload without options.replace: the part is "0".
C6_Witness ==
    /\ Uploading
    /\ UploadData.replace = absent
    /\ \E i \in PartsNamed("replace") : Parts[i].value = Str("0")

\* The headers the operation in progress supplied in its request options
\* (only a direct _call supplies any).
Supplied == IF op.name = "_call" THEN op.args[1] ELSE <<>>

\* The value a request carries for an authentication header: the supplied
\* one, or else the configured one.
Expected(name, configured) ==
    IF name \in DOMAIN Supplied THEN Supplied[name] ELSE configured

CarriesAuth(request) ==
    /\ {"key", "secret"} \subseteq DOMAIN request.config.headers
    /\ request.config.headers["key"] = Expected("key", sdk.apiKey)
    /\ request.config.headers["secret"] = Expected("secret", sdk.apiSecret)

CallbackOps == {"CallbackHelper.success", "CallbackHelper.fail"}

\* C9 as claimed: every outbound call carries key and secret, the configured
\* values unless the request options supply the header.
C9_Original == \A i \in DOMAIN sent : CarriesAuth(sent[i])

\* C9, amended: every outbound call of an SDK operation carries key and
\* secret, the configured apiKey and apiSecret unless the request options
\* supply a header of the same name, which then wins; the posts of a
\* CallbackHelper carry neither; the configured key and secret never change.
C9_AuthHeaders ==
    /\ [](\A i \in DOMAIN sent :
            IF op.name \in CallbackOps
            THEN DOMAIN sent[i].config.headers = {}
            ELSE CarriesAuth(sent[i]))
    /\ [][sdk' = sdk]_vars

\* A direct _call whose options supply key: the supplied key and the
\* configured secret are sent.
C9_Witness ==
    /\ op.name = "_call"
    /\ Supplied = [key |-> "other"]
    /\ sent[1].config.headers["key"] = "other"
    /\ sent[1].config.headers["secret"] = sdk.apiSecret

\* C10: every operation invokes the transport once per call, and when the
\* transport fails it rejects with the error the transport failed with.
C10_OnceAndPropagated ==
    /\ pc # "idle" => Len(sent) = 1
    /\ pc = "idle" => Len(sent) = 0
    /\ (pc = "settled" /\ reply.t = "error") => outcome = Rejected(reply)
    /\ (pc = "settled" /\ reply.t = "response") => outcome.state = "resolved"
    /\ pc = "awaiting" => outcome = Pending

\* getCategory's transport call failed: one invocation, the same error.
C10_Witness ==
    /\ pc = "settled"
    /\ op.name = "getCategory"
    /\ Len(sent) = 1
    /\ reply = [t |-> "error", message |-> "Network Error"]
    /\ outcome = Rejected([t |-> "error", message |-> "Network Error"])

(***************************************************************************)
(* Properties of the operations' results.                                  *)
(***************************************************************************)
\* The value v an operation resolved with holds the envelope's error array e:
\* v is the envelope, or the whole response.
HandsOver(v, e) ==
    IF "error" \in DOMAIN v THEN v.error = e
    ELSE IF v.t = "response" THEN v.data.error = e
    ELSE FALSE

\* The backend reported an error: the transport failed (non-2xx included), or
\* the 200 envelope carries an error array.
BackendError ==
    /\ pc = "settled"
    /\ \/ reply.t = "error"
       \/ reply.t = "response" /\ reply.data.error # <<>>

\* C11: whenever the response is non-2xx or a 200 envelope carrying an error
\* array, the outcome of the operation (updateStatus and attachProduct
\* included) rejects or hands that error array to the caller.
C11_ErrorsSurface ==
    BackendError =>
        \/ outcome.state = "rejected"
        \/ /\ reply.t = "response"
           /\ outcome.state = "resolved"
           /\ HandsOver(outcome.value, reply.data.error)

\* The operations that send the caller's record, or a field of it.
Sends == {"createData", "updateData", "uploadAttachment"}

\* C12: when the transport call of createData, updateData or uploadAttachment
\* fails, the record's default_fields and dynamic_fields (length, order and
\* every field's lbl_id, label, type, value) are what they were before the call.
C12_FailedSendFrame ==
    (pc = "settled" /\ reply.t = "error" /\ op.name \in Sends) =>
        RecordFields = op.record

\* A failed updateData of a record with two default fields and a dynamic one.
C12_Witness ==
    /\ pc = "settled" /\ reply.t = "error" /\ op.name = "updateData"
    /\ Len(op.record.default_fields) = 2
    /\ Len(op.record.dynamic_fields) = 1
    /\ op.args[2].default_fields = op.record.default_fields

(***************************************************************************)
(* Properties of the filter parameter.                                     *)
(***************************************************************************)
\* The query parameter `name` of a request as the transport serializes it:
\* absent when there are no params or the property is undefined.
QueryParam(request, name) ==
    IF request.config.params = absent THEN absent
    ELSE IF name \in DOMAIN request.config.params THEN request.config.params[name]
    ELSE absent

FilterOps == {"search", "getAssets", "getProducts"}

\* The filter reference of the options the operation in progress was called
\* with: absent when there are no options.
FilterArg ==
    LET option == CASE op.name = "search"  -> op.args[2]
                    [] op.args = <<>>      -> absent
                    [] OTHER               -> op.args[1]
    IN  IF option = absent THEN absent ELSE option.filter

EmptyFilter == Obj({})

\* C13: search, getAssets and getProducts send the text of the empty JSON
\* object as `filter` for a filter that is present but empty, send no `filter`
\* parameter when the filter reference is absent, and no `filter` parameter
\* only then.
C13_EmptyVsAbsent ==
    (pc \in {"awaiting", "settled"} /\ op.name \in FilterOps) =>
        /\ FilterArg = EmptyFilter => QueryParam(sent[1], "filter") = Json({}, 0)
        /\ FilterArg = absent <=> QueryParam(sent[1], "filter") = absent

\* getAssets called with options whose filter is empty.
C13_Witness ==
    /\ pc = "awaiting" /\ op.name = "getAssets"
    /\ FilterArg = EmptyFilter
    /\ QueryParam(sent[1], "filter") = Json({}, 0)

(***************************************************************************)
(* Properties of the API version.                                          *)
(***************************************************************************)
\* The version segments of the URL a request goes to.
VersionSegments(request) ==
    { request.url[i] : i \in DOMAIN request.url } \cap Versions

\* An SDK operation is in progress or has settled.
SDKOperation == pc \in {"awaiting", "settled"} /\ op.name \notin CallbackOps

\* C14: among the SDK operations only getAttachments resolves its URL with
\* the version segment v2; every other one, uploadAttachment on the same path
\* included, resolves with v1.
C14_V2OnlyAttachmentRead ==
    SDKOperation =>
        /\ VersionSegments(sent[1]) =
                IF op.name = "getAttachments" THEN {"v2"} ELSE {"v1"}
        /\ sent[1].url = resolved.url
        /\ resolved.url = url(sdk, resolved.path, resolved.version)

\* getAttachments went to <base>/v2/data/attachment.
C14_Witness ==
    /\ pc = "awaiting" /\ op.name = "getAttachments"
    /\ sent[1].url = <<"https:", "/", "/", "api.example.com", "/",
                       "v2", "/", "data", "/", "attachment">>

(***************************************************************************)
(* Properties of the update_date parameter.                                *)
(***************************************************************************)
\* YYYY-MM-DD HH:mm:ss of the instant on the wall clock `offset` hours ahead
\* of UTC.
WallClock(instant, offset) ==
    [t |-> "datetime", day |-> (instant + offset) \div 24, hour |-> (instant + offset) % 24]

\* C15: updateStatus called without an instant sends as update_date the
\* current instant on the Asia/Kuala_Lumpur wall clock (UTC+8), whatever the
\* zone of the caller; called with an instant it sends that instant, rendered
\* on the wall clock of the zone the instant is bound to.
C15_UpdateDate ==
    (pc \in {"awaiting", "settled"} /\ op.name = "updateStatus") =>
        LET update_date == op.args[4]
            now         == op.args[5]
        IN  QueryParam(sent[1], "update_date") =
                IF update_date = absent THEN WallClock(now, 8)
                ELSE WallClock(update_date.instant, Offset(update_date.zone))

\* updateStatus without an instant at 20:00 UTC of day 0: 04:00 of day 1 is sent.
C15_Witness ==
    /\ pc = "awaiting" /\ op.name = "updateStatus"
    /\ op.args[4] = absent /\ op.args[5] = 20
    /\ QueryParam(sent[1], "update_date") = [t |-> "datetime", day |-> 1, hour |-> 4]

(***************************************************************************)
(* Properties of the FieldHelper lookups.                                  *)
(***************************************************************************)
\* The places of the fields the last call's key matches in the array the
\* call's helper wraps: by id for getField / getValue / setValue, by label
\* for the ByLabel methods.
Hits ==
    LET a == arrays[Wrapped(last.view)]
    IN  { i \in DOMAIN a :
            last.key = IF last.op \in {"getField", "getValue", "setValue"}
                       THEN heap[a[i]].lbl_id ELSE heap[a[i]].label }

\* C16: for every helper built from a record's field collections and every
\* id or label, no lookup or mutation throws: getField / getFieldByLabel
\* return a matching field or undefined, getValue / getValueByLabel the value
\* of a matching field or undefined, setValue / setValueByLabel return the
\* helper.
C16_NeverThrows ==
    LET a == arrays[Wrapped(last.view)]
    IN  /\ last.op \in {"getField", "getFieldByLabel"} =>
                IF Hits = {} THEN last.ret = NoField
                ELSE \E i \in Hits : last.ret = a[i]
        /\ last.op \in {"getValue", "getValueByLabel"} =>
                /\ last.ret # TypeError
                /\ IF Hits = {} THEN last.ret = undefined
                   ELSE \E i \in Hits : last.ret = heap[a[i]].value
        /\ last.op \in {"setValue", "setValueByLabel"} => last.ret = last.view

\* A getValue of an id that a collection of two fields does not hold
\* returned undefined.
C16_Witness ==
    /\ last.op = "getValue" /\ last.view = "default" /\ last.key = "f9"
    /\ Len(arrays["default"]) = 2
    /\ last.ret = undefined

\* The places in the view's array of the fields with the id / the label.
IdHits(v, id) ==
    { i \in DOMAIN arrays[View(v).fields] : heap[arrays[View(v).fields][i]].lbl_id = id }

LabelHits(v, l) ==
    { i \in DOMAIN arrays[View(v).fields] : heap[arrays[View(v).fields][i]].label = l }

\* The id and the label each match exactly one field of the view, the same one.
SameUniqueField(v, id, l) ==
    /\ Cardinality(IdHits(v, id)) = 1
    /\ Cardinality(LabelHits(v, l)) = 1
    /\ IdHits(v, id) = LabelHits(v, l)

\* C17: whenever an id and a label each match exactly one field of a
\* collection and it is the same field, getField(id) and
\* getFieldByLabel(label) return that field, getValue(id) equals
\* getValueByLabel(label), and a value written through either key is read
\* back through the other.
C17_IdLabelAgree ==
    \A v \in Views, id \in LookupIds, l \in LookupLabels :
        SameUniqueField(v, id, l) =>
            /\ getField(View(v), id) # NoField
            /\ getField(View(v), id) = getFieldByLabel(View(v), l)
            /\ getValue(View(v), id) = getValueByLabel(View(v), l)
            /\ (last.op = "setValue" /\ last.view = v /\ last.key = id) =>
                    getValueByLabel(View(v), l) = last.value
            /\ (last.op = "setValueByLabel" /\ last.view = v /\ last.key = l) =>
                    getValue(View(v), id) = last.value

\* f2 / Phone is the second of two fields with ids and labels of their own;
\* "B" written by label is read back by id.
C17_Witness ==
    /\ SameUniqueField("default", "f2", "Phone")
    /\ Len(arrays[View("default").fields]) = 2
    /\ IdHits("default", "f2") = {2}
    /\ last.op = "setValueByLabel" /\ last.view = "default"
    /\ last.key = "Phone" /\ last.value = "B"
    /\ getValue(View("default"), "f2") = "B"

(***************************************************************************)
(* Properties of interleaved setValue calls.                               *)
(***************************************************************************)
\* The place in its view's array of the field a completed call wrote: the
\* first with the call's id, 0 when there is none.
WrittenAt(w) ==
    LET a    == arrays[Wrapped(w.view)]
        hits == { i \in DOMAIN a : heap[a[i]].lbl_id = w.key }
    IN  IF hits = {} THEN 0 ELSE Min(hits)

\* The completed calls, by their place in completion order, that wrote the
\* i-th field of the view.
WritesTo(v, i) ==
    { k \in DOMAIN tasks.done : tasks.done[k].view = v /\ WrittenAt(tasks.done[k]) = i }

Max(S) == CHOOSE x \in S : \A y \in S : y <= x

\* C18: in every interleaving of the tasks' setValue calls, every field
\* written holds the value of the call on it that completed last (one of the
\* written values), every other field is as it was, and the collections keep
\* their length and order.
C18_LastWriteWins ==
    \A v \in Views :
        LET a      == arrays[Wrapped(v)]
            before == tasks.before[GroupOf(v)]
        IN  /\ Len(a) = Len(before)
            /\ \A i \in DOMAIN a :
                  heap[a[i]] =
                      IF WritesTo(v, i) = {} THEN before[i]
                      ELSE [before[i] EXCEPT !.value = tasks.done[Max(WritesTo(v, i))].value]

\* The three tasks wrote the same field, t1 completing last: the field holds
\* the value t1 wrote, which differs from what it held before.
C18_Witness ==
    /\ \A t \in Tasks : tasks.pending[t] = <<>>
    /\ Len(tasks.done) = 3
    /\ \A k \in 1..3 : tasks.done[k].key = "f2"
    /\ tasks.done[3].task = "t1"
    /\ tasks.before.default_fields[2].lbl_id = "f2"
    /\ tasks.before.default_fields[2].value = "B"
    /\ heap[arrays["default"][2]].value = "A"

(***************************************************************************)
(* Properties of the caller's options object.                              *)
(***************************************************************************)
\* The JSON text of a filter object, encoded once.
EncodedOnce == { Json(f.v, 0) : f \in Filters }

\* C19: the operations leave the caller's options object as the caller built
\* it, and every getAssets / getProducts call made with it sends as `filter`
\* the JSON text of the original filter object, encoded exactly once (or no
\* filter when the options hold none).
C19_OptionsUnchanged ==
    /\ opts \in OptionObjects
    /\ (pc \in {"awaiting", "settled"} /\ op.name \in {"getAssets", "getProducts"}) =>
            QueryParam(sent[1], "filter") \in {absent} \cup EncodedOnce

(***************************************************************************)
(* Properties of toTemplateType.                                           *)
(***************************************************************************)
\* C20: toTemplateType returns a TemplateType member or false for every
\* string: the mapped member for each of the 13 names of its table, false for
\* every other string; and every TemplateType member is the result for at
\* least one name.
C20_MembersOrFalse ==
    last.op = "toTemplateType" =>
        /\ IF last.key \in DOMAIN WEBHOOK
           THEN last.ret.t = "number" /\ last.ret.v = WEBHOOK[last.key]
                                      /\ last.ret.v \in TemplateType
           ELSE last.ret = Bool(FALSE)
        /\ Cardinality(DOMAIN WEBHOOK) = 13
        /\ \A m \in TemplateType :
                \E name \in DOMAIN WEBHOOK : toTemplateType(name) = Num(m)

====
